---- MODULE Spec2Model ----
(***************************************************************************)
(* Model of src/deploy.py: a Flask route /deploy (GET, POST) that runs the *)
(* fixed command `stellar contract deploy ...` with subprocess.run in text *)
(* mode and relays the outcome as a JSON response.                         *)
(*                                                                         *)
(* Texts are sequences of symbols.  A symbol is one character that matters *)
(* to a conversion (CR, LF, QUOTE, BSLASH, BAD), or an opaque run of       *)
(* ordinary characters ("n", a whole exception message).                   *)
(***************************************************************************)
EXTENDS Integers, Sequences, FiniteSets, TLC

\* ---------------------------------------------------------------- bounds
NumReqs == 2      \* request slots of the concurrent specifications
MaxLen  == 2      \* longest child output in the single-request specification

Reqs == 1..NumReqs

\* ---------------------------------------------------------------- symbols
CR     == "\r"
LF     == "\n"
QUOTE  == "\""
BSLASH == "\\"
BAD    == "0xff"      \* a byte that is not valid in the locale encoding

Bytes     == {"n", CR, LF, QUOTE, BSLASH, BAD}
ExitCodes == {0, 1, -9}
ConcCodes == {0, 1}
Methods   == {"GET", "POST"}
Payloads  == {<<>>, <<"--network", "mainnet">>}

Texts(B, n) == UNION {[1..k -> B] : k \in 0..n}
AllTexts  == Texts(Bytes, MaxLen)
ConcTexts == {<<>>, <<"n">>}

VARIABLES pc, req, attempts, argv, child, run, response
vars == <<pc, req, attempts, argv, child, run, response>>

\* ---------------------------------------------------------------- values
NoReq      == [method |-> "", payload |-> <<>>]
NoChild    == [state |-> "none", code |-> 0, out |-> <<>>, err |-> <<>>]
NoRun      == [kind |-> "none", returncode |-> 0, stdout |-> <<>>, stderr |-> <<>>,
               exc |-> "", msg |-> <<>>]
EmptyBody  == [k \in {} |-> <<>>]
NoResponse == [status |-> 0, body |-> EmptyBody]

PyBool(b) == [t |-> "bool", b |-> b, s |-> <<>>]
PyStr(s)  == [t |-> "str", b |-> FALSE, s |-> s]

CompletedProcess(returncode, stdout, stderr) ==
    [kind |-> "completed", returncode |-> returncode, stdout |-> stdout,
     stderr |-> stderr, exc |-> "", msg |-> <<>>]
Raised(exc, msg) ==
    [kind |-> "raised", returncode |-> 0, stdout |-> <<>>, stderr |-> <<>>,
     exc |-> exc, msg |-> msg]

\* ---------------------------------------------------------------- command
\* mutant: the network argument is taken from a request's parameters
command_from_request ==
    <<"stellar", "contract", "deploy",
      "--wasm", "target/wasm32-unknown-unknown/release/hello_world.wasm",
      "--source", "mediator">>
    \o (IF \E q \in Reqs : req[q].payload # <<>>
        THEN <<"--network", "mainnet">> ELSE <<"--network", "testnet">>)

command ==
    <<"stellar", "contract", "deploy",
      "--wasm", "target/wasm32-unknown-unknown/release/hello_world.wasm",
      "--source", "mediator",
      "--network", "testnet">>

\* ------------------------------------------------- subprocess.run, text=True
RECURSIVE TranslateNewlines(_)
TranslateNewlines(s) ==
    IF s = <<>> THEN <<>>
    ELSE IF Head(s) = CR
         THEN IF Len(s) > 1 /\ s[2] = LF
              THEN <<LF>> \o TranslateNewlines(Tail(Tail(s)))
              ELSE <<LF>> \o TranslateNewlines(Tail(s))
         ELSE <<Head(s)>> \o TranslateNewlines(Tail(s))

Decodable(bytes) == \A i \in 1..Len(bytes) : bytes[i] # BAD

FirstBad(bytes) == CHOOSE i \in 1..Len(bytes) :
                      bytes[i] = BAD /\ \A j \in 1..(i - 1) : bytes[j] # BAD

DecodeErrorMsg(bytes) ==
    <<"'utf-8' codec can't decode byte 0xff in position ",
      ToString(FirstBad(bytes) - 1), ": invalid start byte">>

SpawnErrors ==
    { Raised("FileNotFoundError", <<"[Errno 2] No such file or directory: 'stellar'">>),
      Raised("PermissionError", <<"[Errno 13] Permission denied: 'stellar'">>) }

MemoryErrorRaised == Raised("MemoryError", <<>>)

\* what subprocess.run gives the handler once the child c has terminated
subprocess_run(c) ==
    IF ~Decodable(c.out) THEN Raised("UnicodeDecodeError", DecodeErrorMsg(c.out))
    ELSE IF ~Decodable(c.err) THEN Raised("UnicodeDecodeError", DecodeErrorMsg(c.err))
    ELSE CompletedProcess(c.code, TranslateNewlines(c.out), TranslateNewlines(c.err))

\* ---------------------------------------------------------------- jsonify
\* mutant: the backslash is not escaped
EscapeCharNoBackslash(ch) ==
    CASE ch = QUOTE  -> <<BSLASH, QUOTE>>
      [] ch = LF     -> <<BSLASH, "n">>
      [] ch = CR     -> <<BSLASH, "r">>
      [] OTHER       -> <<ch>>

EscapeChar(ch) ==
    CASE ch = QUOTE  -> <<BSLASH, QUOTE>>
      [] ch = BSLASH -> <<BSLASH, BSLASH>>
      [] ch = LF     -> <<BSLASH, "n">>
      [] ch = CR     -> <<BSLASH, "r">>
      [] OTHER       -> <<ch>>

RECURSIVE Escape(_)
Escape(s) == IF s = <<>> THEN <<>> ELSE EscapeChar(Head(s)) \o Escape(Tail(s))

\* mutant: a boolean is written as the string of its Python name
JsonDumpsBoolAsStr(v) ==
    IF v.t = "bool" THEN <<QUOTE, (IF v.b THEN "True" ELSE "False"), QUOTE>>
    ELSE <<QUOTE>> \o Escape(v.s) \o <<QUOTE>>

JsonDumps(v) ==
    IF v.t = "bool" THEN (IF v.b THEN <<"true">> ELSE <<"false">>)
    ELSE <<QUOTE>> \o Escape(v.s) \o <<QUOTE>>

jsonify(d) == [k \in DOMAIN d |-> JsonDumps(d[k])]

\* ---------------------------------------------------------------- handler
\* mutant: the zero-exit branch relays stderr
deploy_contract_output_stderr(request, result) ==
    IF result.kind = "completed"
    THEN IF result.returncode = 0
         THEN [status |-> 200,
               body |-> jsonify(("success" :> PyBool(TRUE)) @@ ("output" :> PyStr(result.stderr)))]
         ELSE [status |-> 400,
               body |-> jsonify(("success" :> PyBool(FALSE)) @@ ("error" :> PyStr(result.stderr)))]
    ELSE [status |-> 500,
          body |-> jsonify(("success" :> PyBool(FALSE)) @@ ("error" :> PyStr(result.msg)))]

\* mutant: the nonzero-exit branch relays stdout
deploy_contract_error_stdout(request, result) ==
    IF result.kind = "completed"
    THEN IF result.returncode = 0
         THEN [status |-> 200,
               body |-> jsonify(("success" :> PyBool(TRUE)) @@ ("output" :> PyStr(result.stdout)))]
         ELSE [status |-> 400,
               body |-> jsonify(("success" :> PyBool(FALSE)) @@ ("error" :> PyStr(result.stdout)))]
    ELSE [status |-> 500,
          body |-> jsonify(("success" :> PyBool(FALSE)) @@ ("error" :> PyStr(result.msg)))]

\* mutant: the except clause reports the exception's type, not its message
deploy_contract_exc_type(request, result) ==
    IF result.kind = "completed"
    THEN IF result.returncode = 0
         THEN [status |-> 200,
               body |-> jsonify(("success" :> PyBool(TRUE)) @@ ("output" :> PyStr(result.stdout)))]
         ELSE [status |-> 400,
               body |-> jsonify(("success" :> PyBool(FALSE)) @@ ("error" :> PyStr(result.stderr)))]
    ELSE [status |-> 500,
          body |-> jsonify(("success" :> PyBool(FALSE)) @@ ("error" :> PyStr(<<result.exc>>)))]

\* mutant: the except clause returns without a status, so with 200
deploy_contract_no_500(request, result) ==
    IF result.kind = "completed"
    THEN IF result.returncode = 0
         THEN [status |-> 200,
               body |-> jsonify(("success" :> PyBool(TRUE)) @@ ("output" :> PyStr(result.stdout)))]
         ELSE [status |-> 400,
               body |-> jsonify(("success" :> PyBool(FALSE)) @@ ("error" :> PyStr(result.stderr)))]
    ELSE [status |-> 200,
          body |-> jsonify(("success" :> PyBool(FALSE)) @@ ("error" :> PyStr(result.msg)))]

\* mutant: a POST that deploys is answered 201
deploy_contract_by_method(request, result) ==
    IF result.kind = "completed"
    THEN IF result.returncode = 0
         THEN [status |-> (IF request.method = "POST" THEN 201 ELSE 200),
               body |-> jsonify(("success" :> PyBool(TRUE)) @@ ("output" :> PyStr(result.stdout)))]
         ELSE [status |-> 400,
               body |-> jsonify(("success" :> PyBool(FALSE)) @@ ("error" :> PyStr(result.stderr)))]
    ELSE [status |-> 500,
          body |-> jsonify(("success" :> PyBool(FALSE)) @@ ("error" :> PyStr(result.msg)))]

\* ---------------------------------------------------------------- handler
deploy_contract(request, result) ==
    IF result.kind = "completed"
    THEN IF result.returncode = 0
         THEN [status |-> 200,
               body |-> jsonify(("success" :> PyBool(TRUE)) @@ ("output" :> PyStr(result.stdout)))]
         ELSE [status |-> 400,
               body |-> jsonify(("success" :> PyBool(FALSE)) @@ ("error" :> PyStr(result.stderr)))]
    ELSE [status |-> 500,
          body |-> jsonify(("success" :> PyBool(FALSE)) @@ ("error" :> PyStr(result.msg)))]

\* mutant: the wait for the child can end while the child still runs
run_timeout(r) == child[r].state \in {"running", "exited"}

\* the handler is blocked in subprocess.run until the child has terminated
run_unblocked(r) == child[r].state = "exited"

\* ---------------------------------------------------------------- actions
Init ==
    /\ pc = [r \in Reqs |-> "idle"]
    /\ req = [r \in Reqs |-> NoReq]
    /\ attempts = [r \in Reqs |-> 0]
    /\ argv = [r \in Reqs |-> <<>>]
    /\ child = [r \in Reqs |-> NoChild]
    /\ run = [r \in Reqs |-> NoRun]
    /\ response = [r \in Reqs |-> NoResponse]

\* a GET or POST request for /deploy is dispatched to the handler
Receive(r, payloads) ==
    /\ pc[r] = "idle"
    /\ \E m \in Methods, p \in payloads :
         req' = [req EXCEPT ![r] = [method |-> m, payload |-> p]]
    /\ pc' = [pc EXCEPT ![r] = "called"]
    /\ UNCHANGED <<attempts, argv, child, run, response>>

\* mutant: a failed start is retried once before the except clause answers
PopenFailsRetry(r) ==
    /\ pc[r] = "called"
    /\ attempts[r] < 2
    /\ \E e \in SpawnErrors :
         /\ run' = [run EXCEPT ![r] = e]
         /\ response' = [response EXCEPT ![r] =
                           IF attempts[r] = 0 THEN @ ELSE deploy_contract(req[r], e)]
    /\ attempts' = [attempts EXCEPT ![r] = @ + 1]
    /\ argv' = [argv EXCEPT ![r] = command]
    /\ pc' = [pc EXCEPT ![r] = IF attempts[r] = 0 THEN "called" ELSE "done"]
    /\ UNCHANGED <<req, child>>

\* subprocess.run: the child cannot be started; the except clause answers
PopenFails(r) ==
    /\ pc[r] = "called"
    /\ \E e \in SpawnErrors :
         /\ run' = [run EXCEPT ![r] = e]
         /\ response' = [response EXCEPT ![r] = deploy_contract(req[r], e)]
    /\ attempts' = [attempts EXCEPT ![r] = @ + 1]
    /\ argv' = [argv EXCEPT ![r] = command]
    /\ pc' = [pc EXCEPT ![r] = "done"]
    /\ UNCHANGED <<req, child>>

\* subprocess.run: the child is started and the handler waits for it
PopenStarts(r) ==
    /\ pc[r] = "called"
    /\ attempts' = [attempts EXCEPT ![r] = @ + 1]
    /\ argv' = [argv EXCEPT ![r] = command]
    /\ child' = [child EXCEPT ![r] = [NoChild EXCEPT !.state = "running"]]
    /\ pc' = [pc EXCEPT ![r] = "waiting"]
    /\ UNCHANGED <<req, run, response>>

\* the child terminates, by itself or by a signal, having written out and err
ChildExit(r, codes, texts) ==
    /\ pc[r] = "waiting"
    /\ child[r].state = "running"
    /\ \E code \in codes, out \in texts, err \in texts :
         child' = [child EXCEPT ![r] =
                     [state |-> "exited", code |-> code, out |-> out, err |-> err]]
    /\ UNCHANGED <<pc, req, attempts, argv, run, response>>

\* communicate() raises while the child still runs (MemoryError on a huge
\* output): run() kills the child, waits for it and re-raises; what was read
\* so far is dropped with the exception and is not kept here
CommunicateRaises(r) ==
    /\ pc[r] = "waiting"
    /\ child[r].state = "running"
    /\ child' = [child EXCEPT ![r] =
                   [state |-> "exited", code |-> -9, out |-> <<>>, err |-> <<>>]]
    /\ run' = [run EXCEPT ![r] = MemoryErrorRaised]
    /\ response' = [response EXCEPT ![r] = deploy_contract(req[r], MemoryErrorRaised)]
    /\ pc' = [pc EXCEPT ![r] = "done"]
    /\ UNCHANGED <<req, attempts, argv>>

\* mutant: the result is kept in one slot shared by all requests
RunReturnsShared(r) ==
    /\ pc[r] = "waiting"
    /\ run_unblocked(r)
    /\ \E q \in Reqs :
         /\ child[q].state = "exited"
         /\ run' = [run EXCEPT ![r] = subprocess_run(child[q])]
         /\ response' = [response EXCEPT ![r] = deploy_contract(req[r], subprocess_run(child[q]))]
    /\ pc' = [pc EXCEPT ![r] = "done"]
    /\ UNCHANGED <<req, attempts, argv, child>>

\* subprocess.run returns or raises after the child's exit; the handler answers
RunReturns(r) ==
    /\ pc[r] = "waiting"
    /\ run_unblocked(r)
    /\ run' = [run EXCEPT ![r] = subprocess_run(child[r])]
    /\ response' = [response EXCEPT ![r] = deploy_contract(req[r], subprocess_run(child[r]))]
    /\ pc' = [pc EXCEPT ![r] = "done"]
    /\ UNCHANGED <<req, attempts, argv, child>>

\* one request at a time, every output the child can write
Next ==
    \/ Receive(1, Payloads)
    \/ PopenFails(1)
    \/ PopenStarts(1)
    \/ ChildExit(1, ExitCodes, AllTexts)
    \/ CommunicateRaises(1)
    \/ RunReturns(1)

Spec == Init /\ [][Next]_vars

\* several requests in flight, short outputs
ConcNext ==
    \E r \in Reqs :
        \/ Receive(r, Payloads)
        \/ PopenFails(r)
        \/ PopenStarts(r)
        \/ ChildExit(r, ConcCodes, ConcTexts)
        \/ CommunicateRaises(r)
        \/ RunReturns(r)

ConcSpec == Init /\ [][ConcNext]_vars

\* several requests in flight, no request parameters and no child output; a
\* handler whose subprocess.run can return does return and answers, while
\* nothing makes a child terminate
FairNext ==
    \E r \in Reqs :
        \/ Receive(r, {<<>>})
        \/ PopenFails(r)
        \/ PopenStarts(r)
        \/ ChildExit(r, ConcCodes, {<<>>})
        \/ CommunicateRaises(r)
        \/ RunReturns(r)

FairSpec == Init /\ [][FairNext]_vars /\ \A r \in Reqs : WF_vars(RunReturns(r))

\* ------------------------------------------------ reading a response back
UnescapeChar(ch) ==
    CASE ch = "n" -> LF
      [] ch = "r" -> CR
      [] OTHER    -> ch

RECURSIVE Unescape(_)
Unescape(s) ==
    IF s = <<>> THEN <<>>
    ELSE IF Head(s) = BSLASH /\ Len(s) > 1
         THEN <<UnescapeChar(s[2])>> \o Unescape(Tail(Tail(s)))
         ELSE <<Head(s)>> \o Unescape(Tail(s))

JsonLoads(enc) ==
    IF enc = <<"true">> THEN PyBool(TRUE)
    ELSE IF enc = <<"false">> THEN PyBool(FALSE)
    ELSE IF Len(enc) >= 2 /\ Head(enc) = QUOTE /\ enc[Len(enc)] = QUOTE
         THEN PyStr(Unescape(SubSeq(enc, 2, Len(enc) - 1)))
         ELSE [t |-> "invalid", b |-> FALSE, s |-> enc]

Done(r)     == pc[r] = "done"
Keys(r)     == DOMAIN response[r].body
Field(r, k) == JsonLoads(response[r].body[k])
Status(r)   == response[r].status
Returned(r) == run[r].kind = "completed"
Threw(r)    == run[r].kind = "raised"
ExitedWith(r, code) == child[r].state = "exited" /\ child[r].code = code
SuccessBody(r, text) ==
    /\ Keys(r) = {"success", "output"}
    /\ Field(r, "success") = PyBool(TRUE)
    /\ Field(r, "output") = PyStr(text)
FailureBody(r, text) ==
    /\ Keys(r) = {"success", "error"}
    /\ Field(r, "success") = PyBool(FALSE)
    /\ Field(r, "error") = PyStr(text)

\* ---------------------------------------------------------------- claims

\* C1 (as stated): every request whose child exits with code 0 is answered
\* 200 with success = true and output = the child's standard output.
C1_AsStated ==
    \A r \in Reqs : Done(r) /\ ExitedWith(r, 0) =>
        Status(r) = 200 /\ SuccessBody(r, TranslateNewlines(child[r].out))

\* C1 (amended): when subprocess.run returns a result with returncode 0, which
\* needs the child to exit with code 0 and both streams to decode, the
\* response is 200 with success = true and output = the captured stdout text
\* (the child's bytes decoded, CR LF and CR read as LF); a child that exits
\* with code 0 after writing undecodable bytes is answered 500.
C1_ExitZero ==
    \A r \in Reqs : Done(r) =>
        /\ (Returned(r) /\ run[r].returncode = 0) =>
              /\ ExitedWith(r, 0)
              /\ run[r].stdout = TranslateNewlines(child[r].out)
              /\ Status(r) = 200
              /\ SuccessBody(r, run[r].stdout)
        /\ (ExitedWith(r, 0) /\ Decodable(child[r].out) /\ Decodable(child[r].err)) =>
              /\ Returned(r) /\ run[r].returncode = 0
        /\ (ExitedWith(r, 0) /\ ~(Decodable(child[r].out) /\ Decodable(child[r].err))) =>
              Status(r) = 500

C1_Witness ==
    \E r \in Reqs : /\ Done(r) /\ ExitedWith(r, 0)
                    /\ child[r].out = <<BSLASH, CR>>
                    /\ Status(r) = 200
                    /\ Field(r, "output") = PyStr(<<BSLASH, LF>>)

\* C2 (as stated): every request whose child exits with a nonzero code is
\* answered 400 with success = false and error = the child's standard error.
C2_AsStated ==
    \A r \in Reqs : (Done(r) /\ child[r].state = "exited" /\ child[r].code # 0) =>
        Status(r) = 400 /\ FailureBody(r, TranslateNewlines(child[r].err))

\* C2 (amended): when subprocess.run returns a result with a nonzero
\* returncode (positive, or negative for a signal), the response is 400 with
\* success = false and error = the captured stderr text; a child that exits
\* nonzero with undecodable output, or that run() itself killed after an
\* exception, is answered 500.
C2_ExitNonzero ==
    \A r \in Reqs : Done(r) =>
        /\ (Returned(r) /\ run[r].returncode # 0) =>
              /\ child[r].state = "exited" /\ child[r].code = run[r].returncode
              /\ run[r].stderr = TranslateNewlines(child[r].err)
              /\ Status(r) = 400
              /\ FailureBody(r, run[r].stderr)
        /\ (child[r].state = "exited" /\ child[r].code # 0 /\ ~Returned(r)) =>
              Status(r) = 500

C2_Witness ==
    \E r \in Reqs : /\ Done(r) /\ ExitedWith(r, -9)
                    /\ child[r].err = <<QUOTE, CR>>
                    /\ child[r].out = <<"n">>
                    /\ Status(r) = 400
                    /\ Field(r, "error") = PyStr(<<QUOTE, LF>>)

\* C3 (as stated): whenever subprocess.run raises, the response is 500 with
\* success = false and a non-empty error equal to the exception's message.
C3_AsStated ==
    \A r \in Reqs : (Done(r) /\ Threw(r)) =>
        /\ Status(r) = 500
        /\ FailureBody(r, run[r].msg)
        /\ Field(r, "error").s # <<>>

\* C3 (amended): whenever subprocess.run raises, the response is 500 with
\* success = false and error equal to the exception's message; the message
\* is non-empty when the tool could not be started or its output could not be
\* decoded, and is empty for an exception without arguments (MemoryError).
C3_Exception ==
    \A r \in Reqs : (Done(r) /\ Threw(r)) =>
        /\ Status(r) = 500
        /\ FailureBody(r, run[r].msg)
        /\ (child[r].state = "none" => Field(r, "error").s # <<>>)
        /\ (run[r].exc = "UnicodeDecodeError" => Field(r, "error").s # <<>>)
        /\ (run[r].exc = "MemoryError" => Field(r, "error").s = <<>>)

C3_Witness ==
    \E r \in Reqs : /\ Done(r) /\ Threw(r) /\ child[r].state = "none"
                    /\ run[r].exc = "FileNotFoundError"
                    /\ Status(r) = 500
                    /\ Field(r, "error").s # <<>>

\* C4: every response carries a success field that is a JSON boolean.
C4_BooleanSuccess ==
    \A r \in Reqs : Done(r) =>
        /\ "success" \in Keys(r)
        /\ Field(r, "success").t = "bool"
        /\ \A k \in Keys(r) : Field(r, k).t \in {"bool", "str"}

C4_Witness ==
    \E r \in Reqs : /\ Done(r) /\ Status(r) = 500 /\ ExitedWith(r, 0)
                    /\ Field(r, "success") = PyBool(FALSE)

\* The response the contract of section 4.1 gives for the termination of
\* request r's own child and the exception of r's own subprocess.run call.
OwnAnswer(r) ==
    IF run[r].kind = "raised"
    THEN [status |-> 500, success |-> FALSE, key |-> "error", text |-> run[r].msg]
    ELSE IF child[r].code = 0
         THEN [status |-> 200, success |-> TRUE, key |-> "output",
               text |-> TranslateNewlines(child[r].out)]
         ELSE [status |-> 400, success |-> FALSE, key |-> "error",
               text |-> TranslateNewlines(child[r].err)]

Slot(r) == <<pc[r], req[r], attempts[r], argv[r], child[r], run[r], response[r]>>

\* C5: with several requests in flight, each response is determined by the
\* request's own child (exit code, stdout, stderr) or own exception, a step
\* of one request changes nothing of another request, and a response once
\* sent is not changed by later steps.
C5_Independent ==
    /\ [](\A r \in Reqs : Done(r) =>
            /\ Status(r) = OwnAnswer(r).status
            /\ Keys(r) = {"success", OwnAnswer(r).key}
            /\ Field(r, "success") = PyBool(OwnAnswer(r).success)
            /\ Field(r, OwnAnswer(r).key) = PyStr(OwnAnswer(r).text))
    /\ [][\A r, q \in Reqs : (r # q /\ Slot(r)' # Slot(r)) => Slot(q)' = Slot(q)]_vars
    /\ [][\A r \in Reqs : Done(r) => (Done(r)' /\ response[r]' = response[r])]_vars

C5_Witness ==
    \E r, q \in Reqs :
        /\ r # q
        /\ Done(r) /\ ExitedWith(r, 0) /\ child[r].out = <<"n">> /\ Status(r) = 200
        /\ pc[q] = "waiting" /\ ExitedWith(q, 1) /\ child[q].out = <<>>
        /\ child[q].err = <<"n">>

\* C6: GET and POST behave alike: two requests with the same child outcome
\* get the same status and body and ran the same command, whatever their
\* method, body and query parameters.
C6_MethodIgnored ==
    \A r, q \in Reqs :
        /\ (attempts[r] > 0 /\ attempts[q] > 0) => argv[r] = argv[q]
        /\ (Done(r) /\ Done(q) /\ child[r] = child[q] /\ run[r] = run[q]) =>
              response[r] = response[q]

C6_Witness ==
    \E r, q \in Reqs :
        /\ Done(r) /\ Done(q)
        /\ req[r] = [method |-> "GET", payload |-> <<>>]
        /\ req[q] = [method |-> "POST", payload |-> <<"--network", "mainnet">>]
        /\ child[r] = child[q] /\ run[r] = run[q] /\ ExitedWith(r, 0)
        /\ Status(q) = 200

\* C7: a response is sent only after the request's child has terminated or
\* failed to start (so a request whose child never terminates is never
\* answered), and once the child has terminated the request is answered.
C7_BlocksUntilExit ==
    /\ [](\A r \in Reqs : Done(r) => child[r].state \in {"none", "exited"})
    /\ [](\A r \in Reqs : child[r].state = "running" => response[r] = NoResponse)
    /\ \A r \in Reqs : (child[r].state = "exited") ~> Done(r)

C7_Witness ==
    \E r, q \in Reqs :
        /\ Done(r) /\ ExitedWith(r, 1) /\ Status(r) = 400
        /\ pc[q] = "waiting" /\ child[q].state = "running" /\ response[q] = NoResponse

\* C8: a request makes exactly one attempt to start a child: never more than
\* one, and exactly one by the time it is answered, whether the attempt
\* exited 0, exited nonzero or failed to start.
C8_OneAttempt ==
    \A r \in Reqs :
        /\ attempts[r] <= 1
        /\ (pc[r] \in {"idle", "called"} => attempts[r] = 0)
        /\ (pc[r] \in {"waiting", "done"} => attempts[r] = 1)

C8_Witness ==
    \E r, q \in Reqs :
        /\ Done(r) /\ Threw(r) /\ child[r].state = "none" /\ attempts[r] = 1
        /\ Done(q) /\ ExitedWith(q, 1) /\ Status(q) = 400 /\ attempts[q] = 1

\* C9: every request runs the same argument vector: stellar contract deploy
\* --wasm <artifact> --source mediator --network testnet; handling a request
\* does not change it for later requests.
C9_FixedCommand ==
    \A r \in Reqs : attempts[r] > 0 =>
        argv[r] = <<"stellar", "contract", "deploy", "--wasm",
                    "target/wasm32-unknown-unknown/release/hello_world.wasm",
                    "--source", "mediator", "--network", "testnet">>

C9_Witness ==
    \E r, q \in Reqs :
        /\ Done(r) /\ req[r].payload = <<"--network", "mainnet">>
        /\ pc[q] = "waiting" /\ attempts[q] = 1 /\ argv[q] = argv[r]
        /\ argv[q][Len(argv[q])] = "testnet"

\* C10 (as stated): status is 200, 400 or 500; success iff status 200 iff
\* the child ran and exited with code 0; output key iff success, error key
\* iff not success.
C10_AsStated ==
    \A r \in Reqs : Done(r) =>
        /\ Status(r) \in {200, 400, 500}
        /\ (Field(r, "success") = PyBool(TRUE)) <=> (Status(r) = 200)
        /\ (Status(r) = 200) <=> ExitedWith(r, 0)
        /\ ("output" \in Keys(r)) <=> (Field(r, "success") = PyBool(TRUE))
        /\ ("error" \in Keys(r)) <=> (Field(r, "success") = PyBool(FALSE))

\* C10 (amended): status is 200, 400 or 500; success iff status 200 iff
\* subprocess.run returned a result with returncode 0, which implies that the
\* child ran and exited with code 0 (a child that exits 0 with undecodable
\* output is answered 500); output key iff success, error key iff not success.
C10_Tiers ==
    \A r \in Reqs : Done(r) =>
        /\ Status(r) \in {200, 400, 500}
        /\ Field(r, "success").t = "bool"
        /\ (Field(r, "success") = PyBool(TRUE)) <=> (Status(r) = 200)
        /\ (Status(r) = 200) <=> (Returned(r) /\ run[r].returncode = 0)
        /\ (Status(r) = 200) => ExitedWith(r, 0)
        /\ (Status(r) = 400) <=> (Returned(r) /\ run[r].returncode # 0)
        /\ (Status(r) = 500) <=> Threw(r)
        /\ ("output" \in Keys(r)) <=> (Field(r, "success") = PyBool(TRUE))
        /\ ("error" \in Keys(r)) <=> (Field(r, "success") = PyBool(FALSE))

C10_Witness ==
    \E r \in Reqs : /\ Done(r) /\ ExitedWith(r, 0) /\ child[r].err = <<BAD>>
                    /\ Status(r) = 500
                    /\ Keys(r) = {"success", "error"}

====
